---- MODULE Spec2Model ----
(***************************************************************************)
(* Patient-flow engine of the emergency department: EmergencyState and its *)
(* entities (mcp/state.py), PatientService, StaffService, TransportService *)
(* (mcp/services) and the EmergencyController facade with its tick loop    *)
(* (mcp/controllers/emergency_controller.py).                              *)
(*                                                                         *)
(* Time is counted in whole minutes from the construction of the state:    *)
(* tick takes an int number of minutes, every duration of the code is a    *)
(* whole number of minutes, and every comparison of the code is made on a  *)
(* difference of two timestamps, truncated to minutes where it is shown.   *)
(* Identifiers are strings as in the code, without their accents; None is *)
(* the string "None" for an identifier and NoTime for a timestamp.         *)
(***************************************************************************)
EXTENDS Integers, Sequences, FiniteSets, TLC

VARIABLES patients, salles_attente, consultation, unites, staff, current_time, last, appels_restants

vars == <<patients, salles_attente, consultation, unites, staff, current_time, last, appels_restants>>

----------------------------------------------------------------------------
(* Bounds of the exploration *)

\* patients P1, P2, ... that the explored calls admit and name
MaxPatients == 2
\* calls that return success, per behaviour: from the state after construction, and
\* from the department in service
MaxAppels == 7
MaxAppelsCharge == 6
\* the clock is not advanced beyond MaxTime; beyond MaxTimeFin where the ticks are
\* shorter than a transport; beyond MaxTimeQueue where a wait passes SEUIL_ATTENTE_VERT
MaxTime == 5
MaxTimeFin == 7
MaxTimeQueue == 361
\* calls of update_status that return success, per behaviour
MaxAppelsStatut == 4
\* calls that return success, per behaviour, under the two long clocks
MaxAppelsFin == 7
MaxAppelsQueue == 6
\* calls that return success, per behaviour, and the last clock, where the clock passes
\* SEUIL_SURVEILLANCE
MaxAppelsAlerte == 7
MaxTimeAlerte == 20
\* calls that return success, per behaviour, from each occupancy of the rooms
MaxAppelsSalles == 3

----------------------------------------------------------------------------
(* Program constants *)

DUREE_TRANSPORT_CONSULTATION == 5
DUREE_TRANSPORT_UNITE_ROUGE == 5
DUREE_TRANSPORT_UNITE_AUTRES == 45
\* Staff.peut_partir: minimum minutes at a post
DUREE_MIN_OCCUPATION == 5
\* Patient.priorite_queue: a VERT waiting longer than this passes JAUNE
SEUIL_ATTENTE_VERT == 360
\* verifier_surveillance_salles: minutes without supervision
SEUIL_SURVEILLANCE == 15

None == "None"
NoTime == -1

Gravite == {"ROUGE", "JAUNE", "VERT", "GRIS"}

SOINS_CRITIQUES == "Soins Critiques"
MAISON == "Maison"
\* the units EmergencyState builds, in order
UnitesOrdre == <<SOINS_CRITIQUES, "Cardiologie", "Pneumologie", "Neurologie", "Orthopedie">>
UniteCible == {UnitesOrdre[i] : i \in 1..Len(UnitesOrdre)} \cup {MAISON}
capacite_unite(nom) ==
    IF nom = SOINS_CRITIQUES THEN 5 ELSE IF nom = "Neurologie" THEN 8 ELSE 10

ATTENTE_TRIAGE == "attente_triage"
SALLE_ATTENTE == "salle_attente"
EN_TRANSPORT_CONSULTATION == "en_transport_consultation"
EN_CONSULTATION == "en_consultation"
ATTENTE_TRANSPORT_SORTIE == "attente_transport_sortie"
EN_TRANSPORT_SORTIE == "en_transport_sortie"
SORTI == "sorti"
StatutPatient == {ATTENTE_TRIAGE, SALLE_ATTENTE, EN_TRANSPORT_CONSULTATION, EN_CONSULTATION,
                  ATTENTE_TRANSPORT_SORTIE, EN_TRANSPORT_SORTIE, SORTI}

MEDECIN == "medecin"
INFIRMIERE_FIXE == "infirmier(ere)_fixe"
INFIRMIERE_MOBILE == "infirmier(ere)_mobile"
AIDE_SOIGNANT == "aide_soignant"

\* the waiting rooms EmergencyState builds, in order
SallesOrdre == <<"salle_attente_1", "salle_attente_2", "salle_attente_3">>
SalleIds == {SallesOrdre[i] : i \in 1..Len(SallesOrdre)}
capacite(room_id) == IF room_id = "salle_attente_2" THEN 10 ELSE 5

\* the roster _init_staff builds, in order
StaffOrdre ==
    <<"Medecin", "Infirmier(ere) Triage",
       "Infirmier(ere) B", "Infirmier(ere) C", "Aide Soignant(e) A", "Aide Soignant(e) B">>
StaffIds == {StaffOrdre[i] : i \in 1..Len(StaffOrdre)}
TypeStaff(staff_id) ==
    IF staff_id = "Medecin" THEN MEDECIN
    ELSE IF staff_id = "Infirmier(ere) Triage" THEN INFIRMIERE_FIXE
    ELSE IF staff_id \in {"Infirmier(ere) B", "Infirmier(ere) C"} THEN INFIRMIERE_MOBILE
    ELSE AIDE_SOIGNANT

\* patient ids, in the order in which they are admitted
PatientsOrdre == SubSeq(<<"P1", "P2", "P3">>, 1, MaxPatients)
PatientIds == {PatientsOrdre[i] : i \in 1..Len(PatientsOrdre)}

\* the patients of the department in service, besides those of PatientsOrdre: those
\* admitted to Soins Critiques, one short of its capacity, and those who fill the
\* waiting rooms
Hospitalises == [i \in 1..(capacite_unite(SOINS_CRITIQUES) - 1) |-> "H" \o ToString(i)]
Loges ==
    [i \in 1..(capacite("salle_attente_1") + capacite("salle_attente_2")
               + capacite("salle_attente_3")) |-> "W" \o ToString(i)]

\* the ids ajouter_patient_avec_nom may draw for a new patient
Nommes == <<"N1">>
NomIds == {Nommes[i] : i \in 1..Len(Nommes)}

\* every patient id, in the order in which a behaviour admits them: the order of the
\* dict EmergencyState.patients
OrdreAdmission == Hospitalises \o PatientsOrdre \o Loges \o Nommes

----------------------------------------------------------------------------
(* Inputs of the operations *)

\* an id of each kind that names nothing
PATIENT_INCONNU == "P?"
STAFF_INCONNU == "Staff?"
SALLE_INCONNUE == "salle?"

\* the patient objects handed to ajouter_patient: P1 is ROUGE, the others VERT; every
\* other field has the default of the Patient class
GraviteDe(patient_id) == IF patient_id = "P1" THEN "ROUGE" ELSE "VERT"

----------------------------------------------------------------------------
(* The state after construction: EmergencyState.__init__ *)

NouveauPatient(gravite, now) ==
    [gravite |-> gravite, arrived_at |-> now, consultation_end_at |-> NoTime,
     statut |-> ATTENTE_TRIAGE, salle_attente_id |-> None, unite_cible |-> None]

NouvelleSalle ==
    [patients |-> <<>>, surveillee_par |-> None, derniere_surveillance |-> 0]

NouveauStaff(staff_id) ==
    [disponible |-> TRUE,
     localisation |-> IF staff_id = "Medecin" THEN "consultation" ELSE "repos",
     salle_surveillee |-> None, occupe_depuis |-> NoTime, doit_revenir_avant |-> NoTime,
     en_transport |-> FALSE, patient_transporte_id |-> None,
     destination_transport |-> None, fin_transport_prevue |-> NoTime]

EtatInitial ==
    [patients |-> <<>>,
     salles |-> [r \in SalleIds |-> NouvelleSalle],
     consultation |-> [patient_id |-> None, debut_consultation |-> NoTime],
     unites |-> [u \in UniteCible \ {MAISON} |-> <<>>],
     staff |-> [s \in StaffIds |-> NouveauStaff(s)],
     now |-> 0]

\* the aggregate the services share
Etat ==
    [patients |-> patients, salles |-> salles_attente, consultation |-> consultation,
     unites |-> unites, staff |-> staff, now |-> current_time]

----------------------------------------------------------------------------
(* Entities: mcp/state.py *)

\* list.remove(x): the first occurrence goes
RemoveFirst(seq, x) ==
    IF \E i \in 1..Len(seq) : seq[i] = x
    THEN LET k == CHOOSE i \in 1..Len(seq) : seq[i] = x /\ \A j \in 1..(i - 1) : seq[j] # x
         IN  SubSeq(seq, 1, k - 1) \o SubSeq(seq, k + 1, Len(seq))
    ELSE seq

InSeq(seq, x) == \E i \in 1..Len(seq) : seq[i] = x

places_disponibles(st, room_id) == capacite(room_id) - Len(st.salles[room_id].patients)

est_pleine(st, room_id) == Len(st.salles[room_id].patients) >= capacite(room_id)

temps_sans_surveillance(st, room_id) == st.now - st.salles[room_id].derniere_surveillance

\* faulty variant of est_libre: the slot is reported free while a patient holds it
est_libre_toujours(st) == TRUE

est_libre(st) == st.consultation.patient_id = None

\* faulty variant of a_de_la_place: a unit at capacity still takes one
a_de_la_place_au_plus(st, nom) == Len(st.unites[nom]) <= capacite_unite(nom)

\* get_unite finds no unit for Maison nor for None
a_de_la_place(st, nom) == Len(st.unites[nom]) < capacite_unite(nom)

temps_attente_minutes(p, now) == now - p.arrived_at

\* faulty variant of priorite_queue: a VERT passes JAUNE from SEUIL_ATTENTE_VERT on
priorite_queue_des_le_seuil(p, now) ==
    IF p.gravite = "ROUGE" THEN <<0, p.arrived_at>>
    ELSE IF p.gravite = "VERT" /\ now - p.arrived_at >= SEUIL_ATTENTE_VERT
         THEN <<1, p.arrived_at>>
    ELSE IF p.gravite = "JAUNE" THEN <<2, p.arrived_at>>
    ELSE IF p.gravite = "VERT" THEN <<3, p.arrived_at>>
    ELSE <<4, p.arrived_at>>

\* the key of a patient in a queue: its rank, then its arrival
priorite_queue(p, now) ==
    IF p.gravite = "ROUGE" THEN <<0, p.arrived_at>>
    ELSE IF p.gravite = "VERT" /\ temps_attente_minutes(p, now) > SEUIL_ATTENTE_VERT
         THEN <<1, p.arrived_at>>
    ELSE IF p.gravite = "JAUNE" THEN <<2, p.arrived_at>>
    ELSE IF p.gravite = "VERT" THEN <<3, p.arrived_at>>
    ELSE <<4, p.arrived_at>>

\* the order of Python on two keys
CleAvant(k1, k2) == k1[1] < k2[1] \/ (k1[1] = k2[1] /\ k1[2] < k2[2])

\* sorted(ids, key=priorite_queue), a stable sort: id goes behind every id of triee
\* whose key is not after its own
Inserer(st, triee, id) ==
    LET cle(q) == priorite_queue(st.patients[q], st.now)
        devant == {i \in 1..Len(triee) : ~CleAvant(cle(id), cle(triee[i]))}
        k == IF devant = {} THEN 0 ELSE CHOOSE i \in devant : \A j \in devant : j <= i
    IN  SubSeq(triee, 1, k) \o <<id>> \o SubSeq(triee, k + 1, Len(triee))

RECURSIVE Trier(_, _, _)
Trier(st, ids, triee) ==
    IF ids = <<>> THEN triee ELSE Trier(st, Tail(ids), Inserer(st, triee, Head(ids)))

\* the ids of the patients of a status, in the order of the dict
patients_de_statut(st, statut) ==
    SelectSeq(OrdreAdmission,
              LAMBDA id : id \in DOMAIN st.patients /\ st.patients[id].statut = statut)

get_queue_consultation(st) == Trier(st, patients_de_statut(st, SALLE_ATTENTE), <<>>)

get_queue_transport_sortie(st) ==
    Trier(st, patients_de_statut(st, ATTENTE_TRANSPORT_SORTIE), <<>>)

\* faulty variant of peut_partir: the fixed nurse is treated as any other member
\* faulty variant of peut_partir: the time spent at the post is not read
peut_partir_sans_duree(st, staff_id) ==
    LET s == st.staff[staff_id] IN
    IF TypeStaff(staff_id) = INFIRMIERE_FIXE THEN FALSE
    ELSE IF ~s.disponible \/ s.en_transport THEN FALSE
    ELSE TRUE

peut_partir_sans_fixe(st, staff_id) ==
    LET s == st.staff[staff_id] IN
    IF ~s.disponible \/ s.en_transport THEN FALSE
    ELSE IF s.occupe_depuis # NoTime /\ st.now - s.occupe_depuis < DUREE_MIN_OCCUPATION THEN FALSE
    ELSE TRUE

peut_partir(st, staff_id) ==
    LET s == st.staff[staff_id] IN
    IF TypeStaff(staff_id) = INFIRMIERE_FIXE THEN FALSE
    ELSE IF ~s.disponible \/ s.en_transport THEN FALSE
    ELSE IF s.occupe_depuis # NoTime /\ st.now - s.occupe_depuis < DUREE_MIN_OCCUPATION THEN FALSE
    ELSE TRUE

\* faulty variant of ChoisirSalle: among rooms with as many free places, the last one
ChoisirSalle_derniere(st) ==
    LET dispo == {i \in 1..Len(SallesOrdre) : ~est_pleine(st, SallesOrdre[i])} IN
    IF dispo = {} THEN None
    ELSE LET k == CHOOSE i \in dispo :
                    \A j \in dispo :
                        \/ places_disponibles(st, SallesOrdre[j]) < places_disponibles(st, SallesOrdre[i])
                        \/ /\ places_disponibles(st, SallesOrdre[j]) = places_disponibles(st, SallesOrdre[i])
                           /\ j <= i
         IN  SallesOrdre[k]

\* max(salles_dispo, key=places_disponibles): the first room, in declaration order,
\* among the rooms that are not full and have the most free places; None without one
ChoisirSalle(st) ==
    LET dispo == {i \in 1..Len(SallesOrdre) : ~est_pleine(st, SallesOrdre[i])} IN
    IF dispo = {} THEN None
    ELSE LET k == CHOOSE i \in dispo :
                    \A j \in dispo :
                        \/ places_disponibles(st, SallesOrdre[j]) < places_disponibles(st, SallesOrdre[i])
                        \/ /\ places_disponibles(st, SallesOrdre[j]) = places_disponibles(st, SallesOrdre[i])
                           /\ i <= j
         IN  SallesOrdre[k]

\* the patient leaves the list of the room its salle_attente_id names
RetirerDeSalle(st, patient_id) ==
    LET room_id == st.patients[patient_id].salle_attente_id IN
    IF room_id \in SalleIds
    THEN [st.salles EXCEPT ![room_id].patients = RemoveFirst(@, patient_id)]
    ELSE st.salles

Echec(st) == [st |-> st, ok |-> FALSE]
Succes(st) == [st |-> st, ok |-> TRUE]

----------------------------------------------------------------------------
(* PatientService: mcp/services/patient_service.py *)

\* faulty variant of ajouter_patient: an id already in the map is admitted again
ajouter_patient_sans_doublon(st, patient_id, gravite) ==
    Succes([st EXCEPT !.patients =
                [q \in DOMAIN st.patients \cup {patient_id} |->
                    IF q = patient_id THEN NouveauPatient(gravite, st.now)
                    ELSE st.patients[q]]])

ajouter_patient(st, patient_id, gravite) ==
    IF patient_id \in DOMAIN st.patients THEN Echec(st)
    ELSE Succes([st EXCEPT !.patients =
                    [q \in DOMAIN st.patients \cup {patient_id} |->
                        IF q = patient_id THEN NouveauPatient(gravite, st.now)
                        ELSE st.patients[q]]])

assigner_salle_attente(st, patient_id, room_arg) ==
    IF patient_id \notin DOMAIN st.patients THEN Echec(st)
    ELSE LET room_id == IF room_arg = None THEN ChoisirSalle(st) ELSE room_arg IN
         IF room_id = None THEN Echec(st)
         ELSE IF room_id \notin SalleIds THEN Echec(st)
         ELSE IF est_pleine(st, room_id) THEN Echec(st)
         ELSE Succes([st EXCEPT
                        !.salles[room_id].patients = Append(@, patient_id),
                        !.patients[patient_id].statut = SALLE_ATTENTE,
                        !.patients[patient_id].salle_attente_id = room_id])

\* faulty variant of _is_valid_transition: any change of status is accepted
_is_valid_transition_sans_table(current, target) == current # target

_is_valid_transition(current, target) ==
    \/ current = ATTENTE_TRIAGE /\ target = SALLE_ATTENTE
    \/ current = SALLE_ATTENTE /\ target = EN_TRANSPORT_CONSULTATION
    \/ current = EN_TRANSPORT_CONSULTATION /\ target = EN_CONSULTATION
    \/ current = EN_CONSULTATION /\ target \in {ATTENTE_TRANSPORT_SORTIE, SORTI}
    \/ current = ATTENTE_TRANSPORT_SORTIE /\ target \in {EN_TRANSPORT_SORTIE, SALLE_ATTENTE}
    \/ current = EN_TRANSPORT_SORTIE /\ target = SORTI

update_status(st, patient_id, new_status) ==
    IF patient_id \notin DOMAIN st.patients THEN Echec(st)
    ELSE IF ~_is_valid_transition(st.patients[patient_id].statut, new_status) THEN Echec(st)
    ELSE Succes([st EXCEPT !.patients[patient_id].statut = new_status])

----------------------------------------------------------------------------
(* StaffService: mcp/services/staff_service.py *)

\* faulty variant of assigner_surveillance: the room supervised before is not released
assigner_surveillance_sans_liberer(st, staff_id, room_id) ==
    IF staff_id \notin StaffIds THEN Echec(st)
    ELSE IF TypeStaff(staff_id) \notin {INFIRMIERE_MOBILE, AIDE_SOIGNANT} THEN Echec(st)
    ELSE IF ~peut_partir(st, staff_id) THEN Echec(st)
    ELSE IF room_id \notin SalleIds THEN Echec(st)
    ELSE Succes([st EXCEPT
                    !.staff[staff_id].localisation = room_id,
                    !.staff[staff_id].salle_surveillee = room_id,
                    !.staff[staff_id].occupe_depuis = st.now,
                    !.salles[room_id].surveillee_par = staff_id,
                    !.salles[room_id].derniere_surveillance = st.now])

assigner_surveillance(st, staff_id, room_id) ==
    IF staff_id \notin StaffIds THEN Echec(st)
    ELSE IF TypeStaff(staff_id) \notin {INFIRMIERE_MOBILE, AIDE_SOIGNANT} THEN Echec(st)
    ELSE IF ~peut_partir(st, staff_id) THEN Echec(st)
    ELSE IF room_id \notin SalleIds THEN Echec(st)
    ELSE LET ancienne == st.staff[staff_id].salle_surveillee
             liberees == IF ancienne \in SalleIds
                         THEN [st.salles EXCEPT ![ancienne].surveillee_par = None]
                         ELSE st.salles
         IN  Succes([st EXCEPT
                        !.staff[staff_id].localisation = room_id,
                        !.staff[staff_id].salle_surveillee = room_id,
                        !.staff[staff_id].occupe_depuis = st.now,
                        !.salles = [liberees EXCEPT
                                        ![room_id].surveillee_par = staff_id,
                                        ![room_id].derniere_surveillance = st.now]])

\* faulty variant of verifier_surveillance_salles: the alert is raised from
\* SEUIL_SURVEILLANCE minutes on
verifier_surveillance_salles_des_le_seuil(st) ==
    LET surveillee(room) == \E s \in StaffIds : /\ st.staff[s].salle_surveillee = room
                                                /\ ~st.staff[s].en_transport
        alerte(room) == /\ ~surveillee(room)
                        /\ temps_sans_surveillance(st, room) >= SEUIL_SURVEILLANCE
                        /\ Len(st.salles[room].patients) > 0
        rooms == SelectSeq(SallesOrdre, alerte)
    IN  [i \in 1..Len(rooms) |-> <<rooms[i], temps_sans_surveillance(st, rooms[i])>>]

\* the alerts, in the order of the rooms: each names its room and the minutes
verifier_surveillance_salles(st) ==
    LET surveillee(room) == \E s \in StaffIds : /\ st.staff[s].salle_surveillee = room
                                                /\ ~st.staff[s].en_transport
        alerte(room) == /\ ~surveillee(room)
                        /\ temps_sans_surveillance(st, room) > SEUIL_SURVEILLANCE
                        /\ Len(st.salles[room].patients) > 0
        rooms == SelectSeq(SallesOrdre, alerte)
    IN  [i \in 1..Len(rooms) |-> <<rooms[i], temps_sans_surveillance(st, rooms[i])>>]

\* the staff verifier_et_gerer_surveillance would draw from
staff_dispo(st) ==
    {s \in StaffIds : /\ TypeStaff(s) \in {INFIRMIERE_MOBILE, AIDE_SOIGNANT}
                      /\ st.staff[s].disponible
                      /\ ~st.staff[s].en_transport
                      /\ st.staff[s].localisation = "repos"}

\* verifier_et_gerer_surveillance calls assign_room_surveillance, which StaffService
\* does not define: the first room with a patient and no supervisor, when staff_dispo
\* is not empty, ends the call with an AttributeError that nothing catches. No state
\* is written before that, and none when no room qualifies.
verifier_et_gerer_surveillance(st) ==
    IF \E r \in SalleIds : /\ Len(st.salles[r].patients) > 0
                           /\ st.salles[r].surveillee_par = None
                           /\ staff_dispo(st) # {}
    THEN [st |-> st, res |-> "raise", actions |-> <<>>]
    ELSE [st |-> st, res |-> "ok", actions |-> <<>>]

\* faulty variant of release_staff: the patient, the destination and the expected
\* arrival of the transport are left as they were
release_staff_sans_champs(st, staff_id) ==
    IF staff_id \notin StaffIds THEN st
    ELSE LET s == st.staff[staff_id] IN
         [st EXCEPT !.staff[staff_id] =
            [s EXCEPT !.disponible = TRUE, !.en_transport = FALSE,
                      !.occupe_depuis = NoTime,
                      !.doit_revenir_avant = NoTime,
                      !.localisation = IF s.salle_surveillee # None
                                       THEN s.salle_surveillee ELSE "repos"]]

release_staff(st, staff_id) ==
    IF staff_id \notin StaffIds THEN st
    ELSE LET s == st.staff[staff_id] IN
         [st EXCEPT !.staff[staff_id] =
            [s EXCEPT !.disponible = TRUE, !.en_transport = FALSE,
                      !.patient_transporte_id = None, !.destination_transport = None,
                      !.fin_transport_prevue = NoTime, !.occupe_depuis = NoTime,
                      !.doit_revenir_avant = NoTime,
                      !.localisation = IF s.salle_surveillee # None
                                       THEN s.salle_surveillee ELSE "repos"]]

\* next(s for s in staff if s.patient_transporte_id == patient_id): the first of the roster
transporteur(st, patient_id) ==
    LET porteurs == {i \in 1..Len(StaffOrdre) :
                        st.staff[StaffOrdre[i]].patient_transporte_id = patient_id} IN
    IF porteurs = {} THEN None
    ELSE StaffOrdre[CHOOSE i \in porteurs : \A j \in porteurs : i <= j]

----------------------------------------------------------------------------
(* TransportService: mcp/services/transport_service.py *)

demarrer_transport_consultation(st, patient_id, staff_id) ==
    IF patient_id \notin DOMAIN st.patients \/ staff_id \notin StaffIds THEN Echec(st)
    ELSE IF ~est_libre(st) THEN Echec(st)
    ELSE IF ~peut_partir(st, staff_id) THEN Echec(st)
    ELSE Succes([st EXCEPT
            !.salles = RetirerDeSalle(st, patient_id),
            !.patients[patient_id].statut = EN_TRANSPORT_CONSULTATION,
            !.patients[patient_id].salle_attente_id = None,
            !.consultation.patient_id = patient_id,
            !.staff[staff_id].en_transport = TRUE,
            !.staff[staff_id].patient_transporte_id = patient_id,
            !.staff[staff_id].destination_transport = "consultation",
            !.staff[staff_id].fin_transport_prevue = st.now + DUREE_TRANSPORT_CONSULTATION,
            !.staff[staff_id].disponible = FALSE])

\* faulty variant of finaliser_transport_consultation: the status is not read
finaliser_transport_consultation_sans_statut(st, patient_id) ==
    IF patient_id \notin DOMAIN st.patients THEN Echec(st)
    ELSE LET libere == release_staff(st, transporteur(st, patient_id)) IN
         Succes([libere EXCEPT
            !.patients[patient_id].statut = EN_CONSULTATION,
            !.consultation.patient_id = patient_id,
            !.consultation.debut_consultation = st.now])

finaliser_transport_consultation(st, patient_id) ==
    IF patient_id \notin DOMAIN st.patients THEN Echec(st)
    ELSE IF st.patients[patient_id].statut # EN_TRANSPORT_CONSULTATION THEN Echec(st)
    ELSE LET libere == release_staff(st, transporteur(st, patient_id)) IN
         Succes([libere EXCEPT
            !.patients[patient_id].statut = EN_CONSULTATION,
            !.consultation.patient_id = patient_id,
            !.consultation.debut_consultation = st.now])

\* faulty variant of terminer_consultation: a ROUGE patient may be sent home
terminer_consultation_sans_coherence(st, patient_id, unite_cible) ==
    IF patient_id \notin DOMAIN st.patients THEN Echec(st)
    ELSE IF st.patients[patient_id].statut # EN_CONSULTATION THEN Echec(st)
    ELSE Succes([st EXCEPT
            !.patients[patient_id].unite_cible = unite_cible,
            !.patients[patient_id].consultation_end_at = st.now,
            !.consultation.patient_id = None,
            !.patients[patient_id].statut =
                IF unite_cible = MAISON THEN SORTI ELSE ATTENTE_TRANSPORT_SORTIE])

terminer_consultation(st, patient_id, unite_cible) ==
    IF patient_id \notin DOMAIN st.patients THEN Echec(st)
    ELSE IF st.patients[patient_id].statut # EN_CONSULTATION THEN Echec(st)
    ELSE IF st.patients[patient_id].gravite = "ROUGE" /\ unite_cible = MAISON THEN Echec(st)
    ELSE Succes([st EXCEPT
            !.patients[patient_id].unite_cible = unite_cible,
            !.patients[patient_id].consultation_end_at = st.now,
            !.consultation.patient_id = None,
            !.patients[patient_id].statut =
                IF unite_cible = MAISON THEN SORTI ELSE ATTENTE_TRANSPORT_SORTIE])

\* staff_id is not read
retourner_patient_salle_attente(st, patient_id, staff_id, room_arg) ==
    IF patient_id \notin DOMAIN st.patients THEN Echec(st)
    ELSE IF st.patients[patient_id].statut # ATTENTE_TRANSPORT_SORTIE THEN Echec(st)
    ELSE LET room_id == IF room_arg = None THEN ChoisirSalle(st) ELSE room_arg IN
         IF room_id = None THEN Echec(st)
         ELSE IF room_id \notin SalleIds THEN Echec(st)
         ELSE Succes([st EXCEPT
                !.patients[patient_id].statut = SALLE_ATTENTE,
                !.patients[patient_id].salle_attente_id = room_id,
                !.salles[room_id].patients = Append(@, patient_id)])

duree_transport_unite(p) ==
    IF p.gravite = "ROUGE" THEN DUREE_TRANSPORT_UNITE_ROUGE ELSE DUREE_TRANSPORT_UNITE_AUTRES

demarrer_transport_unite(st, patient_id, staff_id) ==
    IF patient_id \notin DOMAIN st.patients \/ staff_id \notin StaffIds THEN Echec(st)
    ELSE LET p == st.patients[patient_id]
             s == st.staff[staff_id]
         IN
         IF p.unite_cible = None THEN Echec(st)
         ELSE IF p.unite_cible = MAISON THEN Echec(st)
         ELSE IF ~a_de_la_place(st, p.unite_cible) THEN Echec(st)
         ELSE IF TypeStaff(staff_id) \notin {AIDE_SOIGNANT, INFIRMIERE_MOBILE} THEN Echec(st)
         ELSE IF ~peut_partir(st, staff_id) THEN Echec(st)
         ELSE LET sorties == RetirerDeSalle(st, patient_id)
                  liberees == IF s.salle_surveillee \in SalleIds
                              THEN [sorties EXCEPT ![s.salle_surveillee].surveillee_par = None]
                              ELSE sorties
              IN  Succes([st EXCEPT
                    !.salles = liberees,
                    !.patients[patient_id].salle_attente_id = None,
                    !.patients[patient_id].statut = EN_TRANSPORT_SORTIE,
                    !.staff[staff_id].en_transport = TRUE,
                    !.staff[staff_id].disponible = FALSE,
                    !.staff[staff_id].patient_transporte_id = patient_id,
                    !.staff[staff_id].destination_transport = p.unite_cible,
                    !.staff[staff_id].fin_transport_prevue = st.now + duree_transport_unite(p),
                    !.staff[staff_id].salle_surveillee = None])

finaliser_transport_unite(st, patient_id) ==
    IF patient_id \notin DOMAIN st.patients THEN Echec(st)
    ELSE IF st.patients[patient_id].statut # EN_TRANSPORT_SORTIE THEN Echec(st)
    ELSE LET cible == st.patients[patient_id].unite_cible
             admis == IF cible \in DOMAIN st.unites
                      THEN [st EXCEPT !.unites[cible] = Append(@, patient_id)]
                      ELSE st
             libere == release_staff(admis, transporteur(admis, patient_id))
         IN  Succes([libere EXCEPT !.patients[patient_id].statut = SORTI])

----------------------------------------------------------------------------
(* EmergencyController: mcp/controllers/emergency_controller.py *)

\* ajouter_patient, then assigner_salle_attente without a room id, for the id drawn; a
\* ValueError of either is returned as a failure, and what was written before it stays
ajouter_patient_avec_nom(st, patient_id, gravite) ==
    LET admis == ajouter_patient(st, patient_id, gravite) IN
    IF ~admis.ok THEN Echec(st)
    ELSE LET loge == assigner_salle_attente(admis.st, patient_id, None) IN
         IF loge.ok THEN Succes(loge.st) ELSE Echec(admis.st)

\* faulty variant of tick_boucle: the roster is walked from its last member to its first
RECURSIVE tick_boucle_a_rebours(_, _, _)
tick_boucle_a_rebours(st, i, events) ==
    LET k == Len(StaffOrdre) + 1 - i IN
    IF i > Len(StaffOrdre) THEN [st |-> st, events |-> events]
    ELSE LET s == st.staff[StaffOrdre[k]] IN
         IF s.en_transport /\ s.fin_transport_prevue # NoTime /\ st.now >= s.fin_transport_prevue
         THEN LET pid == s.patient_transporte_id IN
              IF s.destination_transport = "consultation"
              THEN LET r == finaliser_transport_consultation(st, pid) IN
                   tick_boucle_a_rebours(r.st, i + 1,
                               IF r.ok THEN Append(events, <<"consultation", pid>>) ELSE events)
              ELSE LET r == finaliser_transport_unite(st, pid) IN
                   tick_boucle_a_rebours(r.st, i + 1,
                               IF r.ok THEN Append(events, <<"unite", pid>>) ELSE events)
         ELSE tick_boucle_a_rebours(st, i + 1, events)

\* the loop of tick over the roster, from its i-th member on: the state and the events
RECURSIVE tick_boucle(_, _, _)
tick_boucle(st, i, events) ==
    IF i > Len(StaffOrdre) THEN [st |-> st, events |-> events]
    ELSE LET s == st.staff[StaffOrdre[i]] IN
         IF s.en_transport /\ s.fin_transport_prevue # NoTime /\ st.now >= s.fin_transport_prevue
         THEN LET pid == s.patient_transporte_id IN
              IF s.destination_transport = "consultation"
              THEN LET r == finaliser_transport_consultation(st, pid) IN
                   tick_boucle(r.st, i + 1,
                               IF r.ok THEN Append(events, <<"consultation", pid>>) ELSE events)
              ELSE LET r == finaliser_transport_unite(st, pid) IN
                   tick_boucle(r.st, i + 1,
                               IF r.ok THEN Append(events, <<"unite", pid>>) ELSE events)
         ELSE tick_boucle(st, i + 1, events)

tick(st, minutes) == tick_boucle([st EXCEPT !.now = @ + minutes], 1, <<>>)

\* the alerts of the state, which get_alertes reads and does not write
get_alertes(st) ==
    [surveillance |-> verifier_surveillance_salles(st),
     longue_attente |->
        SelectSeq(OrdreAdmission,
                  LAMBDA id : /\ id \in DOMAIN st.patients
                              /\ st.patients[id].statut = SALLE_ATTENTE
                              /\ temps_attente_minutes(st.patients[id], st.now)
                                    > SEUIL_ATTENTE_VERT)]

\* last: the last call of the controller that returned success, and the events of a
\* tick. A call that returns a failure writes nothing, and leaves last as it is.
Retour(op, events) == [op |-> op, events |-> events]

Poser(st) ==
    /\ patients' = st.patients
    /\ salles_attente' = st.salles
    /\ consultation' = st.consultation
    /\ unites' = st.unites
    /\ staff' = st.staff
    /\ current_time' = st.now

\* a call and what it returned; appels_restants counts the successes left to explore
Appel(op, r) ==
    /\ appels_restants > 0
    /\ Poser(r.st)
    /\ last' = IF r.ok THEN Retour(op, <<>>) ELSE last
    /\ appels_restants' = IF r.ok THEN appels_restants - 1 ELSE appels_restants

\* ids are admitted in the order of PatientsOrdre: an admit names a patient already
\* in the map or the first one that is not
AdmitArgs ==
    {PatientsOrdre[i] : i \in {k \in 1..Len(PatientsOrdre) :
                                  \A j \in 1..(k - 1) : PatientsOrdre[j] \in DOMAIN patients}}

Init ==
    /\ patients = EtatInitial.patients
    /\ salles_attente = EtatInitial.salles
    /\ consultation = EtatInitial.consultation
    /\ unites = EtatInitial.unites
    /\ staff = EtatInitial.staff
    /\ current_time = EtatInitial.now
    /\ last = Retour("init", <<>>)
    /\ appels_restants = MaxAppels

AjouterPatient(patient_id, gravite) ==
    Appel("ajouter_patient", ajouter_patient(Etat, patient_id, gravite))

AjouterPatientAvecNom(patient_id, gravite) ==
    Appel("ajouter_patient_avec_nom", ajouter_patient_avec_nom(Etat, patient_id, gravite))

AssignerSalleAttente(patient_id, room_id) ==
    Appel("assigner_salle_attente", assigner_salle_attente(Etat, patient_id, room_id))

AssignerSurveillance(staff_id, room_id) ==
    Appel("assigner_surveillance", assigner_surveillance(Etat, staff_id, room_id))

\* returns with no action, or raises: no state is written either way
VerifierEtGererSurveillance ==
    LET r == verifier_et_gerer_surveillance(Etat) IN
    /\ appels_restants > 0
    /\ Poser(r.st)
    /\ last' = IF r.res = "ok" THEN Retour("verifier_et_gerer_surveillance", r.actions) ELSE last
    /\ appels_restants' = IF r.res = "ok" THEN appels_restants - 1 ELSE appels_restants

DemarrerTransportConsultation(patient_id, staff_id) ==
    Appel("demarrer_transport_consultation",
          demarrer_transport_consultation(Etat, patient_id, staff_id))

FinaliserTransportConsultation(patient_id) ==
    Appel("finaliser_transport_consultation", finaliser_transport_consultation(Etat, patient_id))

TerminerConsultation(patient_id, unite_cible) ==
    Appel("terminer_consultation", terminer_consultation(Etat, patient_id, unite_cible))

RetournerPatientSalleAttente(patient_id, staff_id, room_id) ==
    Appel("retourner_patient_salle_attente",
          retourner_patient_salle_attente(Etat, patient_id, staff_id, room_id))

DemarrerTransportUnite(patient_id, staff_id) ==
    Appel("demarrer_transport_unite", demarrer_transport_unite(Etat, patient_id, staff_id))

FinaliserTransportUnite(patient_id) ==
    Appel("finaliser_transport_unite", finaliser_transport_unite(Etat, patient_id))

Tick(minutes) ==
    LET r == tick(Etat, minutes) IN
    /\ appels_restants > 0
    /\ Poser(r.st)
    /\ last' = Retour("tick", r.events)
    /\ appels_restants' = appels_restants - 1

\* The calls of the controller, with their arguments drawn from the sets of a:
\*   gravites the gravities a patient may be admitted with
\*   patients the patient ids given to every call but ajouter_patient
\*   staff    the staff ids given to the transports and to assigner_surveillance
\*   salles   the room ids given to assigner_salle_attente
\*   retours  the room ids given to retourner_patient_salle_attente
\*   postes   the room ids given to assigner_surveillance
\*   unites   the destinations given to terminer_consultation
\*   ticks    the minutes given to tick
\*   horizon  the clock that tick is not called beyond
NextAvec(a) ==
    \/ \E p \in AdmitArgs : \E g \in a.gravites[p] : AjouterPatient(p, g)
    \/ \E p \in a.patients, room \in a.salles : AssignerSalleAttente(p, room)
    \/ \E s \in a.staff, room \in a.postes : AssignerSurveillance(s, room)
    \/ VerifierEtGererSurveillance
    \/ \E p \in a.patients, s \in a.staff : DemarrerTransportConsultation(p, s)
    \/ \E p \in a.patients : FinaliserTransportConsultation(p)
    \/ \E p \in a.patients, u \in a.unites : TerminerConsultation(p, u)
    \/ \E p \in a.patients, room \in a.retours :
            RetournerPatientSalleAttente(p, STAFF_INCONNU, room)
    \/ \E p \in a.patients, s \in a.staff : DemarrerTransportUnite(p, s)
    \/ \E p \in a.patients : FinaliserTransportUnite(p)
    \/ \E m \in a.ticks : current_time + m <= a.horizon /\ Tick(m)

ArgsSpec ==
    [gravites |-> [p \in PatientIds |-> {GraviteDe(p)}],
     patients |-> PatientIds \cup {PATIENT_INCONNU},
     staff   |-> {"Medecin", "Infirmier(ere) Triage", "Infirmier(ere) B", "Aide Soignant(e) A", STAFF_INCONNU},
     salles  |-> {None, SALLE_INCONNUE},
     retours |-> {None, "salle_attente_1"},
     postes  |-> {"salle_attente_1"},
     unites  |-> {SOINS_CRITIQUES, MAISON},
     ticks   |-> {5},
     horizon |-> MaxTime]

Next == NextAvec(ArgsSpec)

Spec == Init /\ [][Next]_vars

----------------------------------------------------------------------------
(* The department in service: a state the calls of the controller build *)

\* ajouter_patient and assigner_salle_attente without a room id, for each id of ids
\* in turn; a call that fails ends the sequence
RECURSIVE Installer(_, _)
Installer(st, ids) ==
    IF ids = <<>> THEN st
    ELSE LET admis == ajouter_patient(st, Head(ids), GraviteDe(Head(ids)))
             loge == assigner_salle_attente(admis.st, Head(ids), None)
         IN  IF admis.ok /\ loge.ok THEN Installer(loge.st, Tail(ids)) ELSE st

\* from the waiting room to the end of the consultation, each id of ids in turn
RECURSIVE Consulter(_, _, _, _)
Consulter(st, ids, staff_id, unite_cible) ==
    IF ids = <<>> THEN st
    ELSE LET parti == demarrer_transport_consultation(st, Head(ids), staff_id)
             arrive == finaliser_transport_consultation(parti.st, Head(ids))
             vu == terminer_consultation(arrive.st, Head(ids), unite_cible)
         IN  IF parti.ok /\ arrive.ok /\ vu.ok
             THEN Consulter(vu.st, Tail(ids), staff_id, unite_cible) ELSE st

\* from the end of the consultation into the unit, each id of ids in turn
RECURSIVE Hospitaliser(_, _, _)
Hospitaliser(st, ids, staff_id) ==
    IF ids = <<>> THEN st
    ELSE LET parti == demarrer_transport_unite(st, Head(ids), staff_id)
             arrive == finaliser_transport_unite(parti.st, Head(ids))
         IN  IF parti.ok /\ arrive.ok THEN Hospitaliser(arrive.st, Tail(ids), staff_id) ELSE st

\* At the clock of the construction: the patients of Hospitalises went through the
\* consultation into Soins Critiques; P1 and P2 went from a waiting room through the
\* consultation and wait for their transport to Soins Critiques; the patients of Loges
\* then took every place of every waiting room. Aide Soignant(e) B did every transport.
EtatCharge ==
    LET anciens == Hospitaliser(Consulter(Installer(EtatInitial, Hospitalises), Hospitalises,
                                          "Aide Soignant(e) B", SOINS_CRITIQUES),
                                Hospitalises, "Aide Soignant(e) B")
        attente == Consulter(Installer(anciens, PatientsOrdre), PatientsOrdre,
                             "Aide Soignant(e) B", SOINS_CRITIQUES)
    IN  Installer(attente, Loges)

InitCharge ==
    /\ patients = EtatCharge.patients
    /\ salles_attente = EtatCharge.salles
    /\ consultation = EtatCharge.consultation
    /\ unites = EtatCharge.unites
    /\ staff = EtatCharge.staff
    /\ current_time = EtatCharge.now
    /\ last = Retour("init", <<>>)
    /\ appels_restants = MaxAppelsCharge

ArgsCharge ==
    [gravites |-> [p \in PatientIds |-> {GraviteDe(p)}],
     patients |-> PatientIds \cup {"W1"},
     staff   |-> {"Infirmier(ere) B", "Aide Soignant(e) A"},
     salles  |-> {None},
     retours |-> {None, "salle_attente_1"},
     postes  |-> {"salle_attente_1"},
     unites  |-> {SOINS_CRITIQUES},
     ticks   |-> {5},
     horizon |-> MaxTime]

NextCharge == NextAvec(ArgsCharge)

SpecCharge == InitCharge /\ [][NextCharge]_vars

----------------------------------------------------------------------------
(* Ticks shorter than a transport *)

InitFin ==
    /\ patients = EtatInitial.patients
    /\ salles_attente = EtatInitial.salles
    /\ consultation = EtatInitial.consultation
    /\ unites = EtatInitial.unites
    /\ staff = EtatInitial.staff
    /\ current_time = EtatInitial.now
    /\ last = Retour("init", <<>>)
    /\ appels_restants = MaxAppelsFin

ArgsFin ==
    [gravites |-> [p \in PatientIds |-> {GraviteDe(p)}],
     patients |-> PatientIds,
     staff   |-> {"Infirmier(ere) B", "Aide Soignant(e) A"},
     salles  |-> {None},
     retours |-> {None},
     postes  |-> {"salle_attente_1"},
     unites  |-> {SOINS_CRITIQUES},
     ticks   |-> {2, 3},
     horizon |-> MaxTimeFin]

NextFin == NextAvec(ArgsFin)

SpecFin == InitFin /\ [][NextFin]_vars

----------------------------------------------------------------------------
(* The queues: patients of every gravity, and a clock that passes SEUIL_ATTENTE_VERT *)

InitQueue ==
    /\ patients = EtatInitial.patients
    /\ salles_attente = EtatInitial.salles
    /\ consultation = EtatInitial.consultation
    /\ unites = EtatInitial.unites
    /\ staff = EtatInitial.staff
    /\ current_time = EtatInitial.now
    /\ last = Retour("init", <<>>)
    /\ appels_restants = MaxAppelsQueue

ArgsQueue ==
    [gravites |-> [p \in PatientIds |-> Gravite],
     patients |-> PatientIds,
     staff   |-> {"Aide Soignant(e) A"},
     salles  |-> {None},
     retours |-> {None},
     postes  |-> {"salle_attente_1"},
     unites  |-> {"Cardiologie"},
     ticks   |-> {1, SEUIL_ATTENTE_VERT},
     horizon |-> MaxTimeQueue]

NextQueue == NextAvec(ArgsQueue)

SpecQueue == InitQueue /\ [][NextQueue]_vars

----------------------------------------------------------------------------
(* Supervision: two posts, and a clock that passes SEUIL_SURVEILLANCE *)

InitAlerte ==
    /\ patients = EtatInitial.patients
    /\ salles_attente = EtatInitial.salles
    /\ consultation = EtatInitial.consultation
    /\ unites = EtatInitial.unites
    /\ staff = EtatInitial.staff
    /\ current_time = EtatInitial.now
    /\ last = Retour("init", <<>>)
    /\ appels_restants = MaxAppelsAlerte

ArgsAlerte ==
    [gravites |-> [p \in PatientIds |-> {GraviteDe(p)}],
     patients |-> {"P1"},
     staff   |-> {"Infirmier(ere) B", "Aide Soignant(e) A"},
     salles  |-> {None},
     retours |-> {None},
     postes  |-> {"salle_attente_1", "salle_attente_2"},
     unites  |-> {SOINS_CRITIQUES},
     ticks   |-> {5, 10},
     horizon |-> MaxTimeAlerte]

NextAlerte == NextAvec(ArgsAlerte)

SpecAlerte == InitAlerte /\ [][NextAlerte]_vars

----------------------------------------------------------------------------
(* PatientService.update_status, on a patient at each stage of its course *)

\* the states along the course of P1, admitted with gravite and sent to unite_cible
EtatsDuParcours(gravite, unite_cible) ==
    LET s0 == ajouter_patient(EtatInitial, "P1", gravite).st
        s1 == assigner_salle_attente(s0, "P1", None).st
        s2 == demarrer_transport_consultation(s1, "P1", "Aide Soignant(e) A").st
        s3 == finaliser_transport_consultation(s2, "P1").st
        s4 == terminer_consultation(s3, "P1", unite_cible).st
        s5 == demarrer_transport_unite(s4, "P1", "Aide Soignant(e) A").st
        s6 == finaliser_transport_unite(s5, "P1").st
    IN  {s0, s1, s2, s3, s4, s5, s6}

InitStatut ==
    /\ \E gravite \in Gravite, unite_cible \in UniteCible :
          \E st \in EtatsDuParcours(gravite, unite_cible) :
              /\ patients = st.patients
              /\ salles_attente = st.salles
              /\ consultation = st.consultation
              /\ unites = st.unites
              /\ staff = st.staff
              /\ current_time = st.now
    /\ last = Retour("init", <<>>)
    /\ appels_restants = MaxAppelsStatut

UpdateStatus(patient_id, new_status) ==
    Appel("update_status", update_status(Etat, patient_id, new_status))

NextStatut ==
    \E patient_id \in {"P1", PATIENT_INCONNU}, new_status \in StatutPatient :
        UpdateStatus(patient_id, new_status)

SpecStatut == InitStatut /\ [][NextStatut]_vars

----------------------------------------------------------------------------
(* Properties *)

\* the edges of the patient state machine
AreteListee(current, target) ==
    \/ current = ATTENTE_TRIAGE /\ target = SALLE_ATTENTE
    \/ current = SALLE_ATTENTE /\ target = EN_TRANSPORT_CONSULTATION
    \/ current = EN_TRANSPORT_CONSULTATION /\ target = EN_CONSULTATION
    \/ current = EN_CONSULTATION /\ target = ATTENTE_TRANSPORT_SORTIE
    \/ current = EN_CONSULTATION /\ target = SORTI
    \/ current = ATTENTE_TRANSPORT_SORTIE /\ target = EN_TRANSPORT_SORTIE
    \/ current = ATTENTE_TRANSPORT_SORTIE /\ target = SALLE_ATTENTE
    \/ current = EN_TRANSPORT_SORTIE /\ target = SORTI

\* the step is a call of tick
EstUnTick == last'.op = "tick" /\ appels_restants' = appels_restants - 1

\* C1: after any sequence of calls of the controller, every waiting room holds at most
\* capacity patient ids.
C1_CapaciteSalles ==
    \A room \in SalleIds : Len(salles_attente[room].patients) <= capacite(room)

\* C2: after any sequence of calls of the controller, several transports towards the
\* same unit in flight included, the list of every care unit has at most capacity
\* entries.
C2_CapaciteUnites ==
    \A nom \in DOMAIN unites : Len(unites[nom]) <= capacite_unite(nom)

\* C3: at most one patient is EN_TRANSPORT_CONSULTATION or EN_CONSULTATION, and the
\* consultation slot names that patient.
C3_UneSeuleConsultation ==
    \A p \in DOMAIN patients :
        patients[p].statut \in {EN_TRANSPORT_CONSULTATION, EN_CONSULTATION} =>
            /\ consultation.patient_id = p
            /\ \A q \in DOMAIN patients :
                  patients[q].statut \in {EN_TRANSPORT_CONSULTATION, EN_CONSULTATION} => q = p

\* C3, its case: a patient is in consultation, the slot names it, and another patient
\* waits in a room for the consultation.
C3_Witness ==
    \E p, q \in DOMAIN patients :
        /\ p # q
        /\ patients[p].statut = EN_CONSULTATION
        /\ consultation.patient_id = p
        /\ patients[q].statut = SALLE_ATTENTE

\* C4: every change of the status of a patient, by any call of the controller, goes
\* along an edge of the patient state machine; a patient in transit leaves its status
\* only to EN_CONSULTATION, respectively SORTI, which are the only edges out of the
\* two transit statuses.
C4_AdherenceMachine ==
    [][\A p \in DOMAIN patients :
          patients'[p].statut # patients[p].statut =>
              AreteListee(patients[p].statut, patients'[p].statut)]_vars

\* C6: no staff member is in transit and supervising a waiting room at the same time.
C6_TransportOuSurveillance ==
    \A s \in StaffIds : ~(staff[s].en_transport /\ staff[s].salle_surveillee # None)

\* C7: when tick returns, no staff member is in transit with an expected arrival at or
\* before the new clock; and a staff member whose expected arrival is later than the new
\* clock is left as it was, with the patient it carries.
C7_TickFinaliseLesEchus ==
    [][EstUnTick =>
          /\ \A s \in StaffIds :
                ~(staff'[s].en_transport /\ staff'[s].fin_transport_prevue <= current_time')
          /\ \A s \in StaffIds :
                staff[s].en_transport /\ staff[s].fin_transport_prevue > current_time' =>
                    /\ staff'[s] = staff[s]
                    /\ \A p \in DOMAIN patients :
                          staff[s].patient_transporte_id = p =>
                              patients'[p].statut = patients[p].statut]_vars

\* C5: update_status succeeds on the pairs (current, target) the state machine lists,
\* and then changes the status of the patient and nothing else; on every other pair,
\* the pairs out of SORTI and the pairs with current = target included, it fails and
\* changes nothing.
C5_TotaliteUpdateStatus ==
    \A p \in DOMAIN patients, target \in StatutPatient :
        LET r == update_status(Etat, p, target) IN
        IF AreteListee(patients[p].statut, target)
        THEN r.ok /\ r.st = [Etat EXCEPT !.patients[p].statut = target]
        ELSE ~r.ok /\ r.st = Etat

\* C5, its case: update_status has brought the patient to SORTI, from where every
\* target is refused.
C5_Witness ==
    /\ last.op = "update_status"
    /\ patients["P1"].statut = SORTI
    /\ \A target \in StatutPatient : ~update_status(Etat, "P1", target).ok

\* the unit the patient is sent to is at capacity
UnitePleine(p) ==
    /\ patients[p].unite_cible \in DOMAIN unites
    /\ Len(unites[patients[p].unite_cible]) >= capacite_unite(patients[p].unite_cible)

\* demarrer_transport_unite fails for the patient and changes nothing, whoever carries
TransportUniteRefuse(p) ==
    \A s \in StaffIds : demarrer_transport_unite(Etat, p, s) = Echec(Etat)

\* C8, as stated: whenever a patient is ATTENTE_TRANSPORT_SORTIE and its unit is at
\* capacity, demarrer_transport_unite fails and changes nothing, and
\* retourner_patient_salle_attente succeeds and sets the patient SALLE_ATTENTE.
C8_SecoursToujours ==
    \A p \in DOMAIN patients :
        patients[p].statut = ATTENTE_TRANSPORT_SORTIE /\ UnitePleine(p) =>
            /\ TransportUniteRefuse(p)
            /\ \A s \in StaffIds :
                  LET r == retourner_patient_salle_attente(Etat, p, s, None) IN
                  r.ok /\ r.st.patients[p].statut = SALLE_ATTENTE

\* C8, amended: whenever a patient is ATTENTE_TRANSPORT_SORTIE and its unit is at
\* capacity, demarrer_transport_unite fails and changes nothing;
\* retourner_patient_salle_attente without a room id succeeds and sets the patient
\* SALLE_ATTENTE, in a room that was not full, when some waiting room is not full, and
\* fails and changes nothing when every waiting room is full.
C8_SecoursSiPlace ==
    \A p \in DOMAIN patients :
        patients[p].statut = ATTENTE_TRANSPORT_SORTIE /\ UnitePleine(p) =>
            /\ TransportUniteRefuse(p)
            /\ \A s \in StaffIds :
                  LET r == retourner_patient_salle_attente(Etat, p, s, None) IN
                  IF \E room \in SalleIds : Len(salles_attente[room].patients) < capacite(room)
                  THEN /\ r.ok
                       /\ r.st.patients[p].statut = SALLE_ATTENTE
                       /\ r.st.patients[p].salle_attente_id \in SalleIds
                       /\ Len(salles_attente[r.st.patients[p].salle_attente_id].patients)
                             < capacite(r.st.patients[p].salle_attente_id)
                  ELSE r = Echec(Etat)

\* C8, its case: a patient whose unit is at capacity has been returned to a waiting room.
C8_Witness ==
    /\ last.op = "retourner_patient_salle_attente"
    /\ \E p \in DOMAIN patients :
          /\ patients[p].statut = SALLE_ATTENTE
          /\ UnitePleine(p)
          /\ InSeq(salles_attente[patients[p].salle_attente_id].patients, p)

\* the tier of a patient in the queues
Tier(p) ==
    IF patients[p].gravite = "ROUGE" THEN 0
    ELSE IF patients[p].gravite = "VERT" /\ current_time - patients[p].arrived_at > 360 THEN 1
    ELSE IF patients[p].gravite = "JAUNE" THEN 2
    ELSE IF patients[p].gravite = "VERT" THEN 3
    ELSE 4

\* file holds each patient of the status once, in ascending order of (tier, arrival)
FileTriee(file, statut) ==
    /\ \A p \in DOMAIN patients : patients[p].statut = statut <=> InSeq(file, p)
    /\ \A i, j \in 1..Len(file) :
          i < j =>
              /\ file[i] # file[j]
              /\ \/ Tier(file[i]) < Tier(file[j])
                 \/ /\ Tier(file[i]) = Tier(file[j])
                    /\ patients[file[i]].arrived_at <= patients[file[j]].arrived_at

\* C9: get_queue_consultation and get_queue_transport_sortie are sorted in ascending
\* order of (tier, arrival), with the tiers ROUGE 0, VERT waiting more than 360 minutes 1,
\* JAUNE 2, VERT waiting 360 minutes or less 3, GRIS 4: every ROUGE is before every
\* JAUNE, and a VERT is before a JAUNE when, and only when, it has waited more than 360
\* minutes.
C9_OrdrePriorite ==
    /\ FileTriee(get_queue_consultation(Etat), SALLE_ATTENTE)
    /\ FileTriee(get_queue_transport_sortie(Etat), ATTENTE_TRANSPORT_SORTIE)
    /\ \A file \in {get_queue_consultation(Etat), get_queue_transport_sortie(Etat)} :
          \A i, j \in 1..Len(file) :
              /\ patients[file[i]].gravite = "ROUGE" /\ patients[file[j]].gravite = "JAUNE"
                    => i < j
              /\ patients[file[i]].gravite = "VERT" /\ patients[file[j]].gravite = "JAUNE"
                    => (i < j <=> current_time - patients[file[i]].arrived_at > 360)

\* C9, its case: the clock has been ticked to more than 360 minutes past the arrival
\* of a VERT, which is in the consultation queue before a JAUNE that arrived no later.
C9_Witness ==
    LET file == get_queue_consultation(Etat) IN
    /\ last.op = "tick"
    /\ Len(file) = 2
    /\ patients[file[1]].gravite = "VERT"
    /\ patients[file[2]].gravite = "JAUNE"
    /\ patients[file[2]].arrived_at <= patients[file[1]].arrived_at
    /\ current_time - patients[file[1]].arrived_at > 360

\* C10: for a patient SALLE_ATTENTE, a free consultation slot and a staff member that
\* may leave, at clock t, demarrer_transport_consultation succeeds, takes the patient
\* out of its room, sets it EN_TRANSPORT_CONSULTATION, gives it the slot, and leaves the
\* staff member in transit, not available, expected at t + 5; from there, a tick that
\* leaves the clock below t + 5 keeps the patient and the staff member in transit, and
\* the first tick that brings the clock to t + 5 or later sets the patient
\* EN_CONSULTATION and leaves the staff member available and not in transit.
C10_TransportConsultation ==
    \A p \in DOMAIN patients, s \in StaffIds :
        patients[p].statut = SALLE_ATTENTE /\ est_libre(Etat) /\ peut_partir(Etat, s) =>
            LET r == demarrer_transport_consultation(Etat, p, s)
                apres(m1, m2) == tick(IF m1 = 0 THEN r.st ELSE tick(r.st, m1).st, m2).st
            IN  /\ r.ok
                /\ \A room \in SalleIds :
                      patients[p].salle_attente_id = room =>
                          ~InSeq(r.st.salles[room].patients, p)
                /\ r.st.patients[p].statut = EN_TRANSPORT_CONSULTATION
                /\ r.st.consultation.patient_id = p
                /\ r.st.staff[s].en_transport
                /\ ~r.st.staff[s].disponible
                /\ r.st.staff[s].fin_transport_prevue = current_time + 5
                /\ \A m1 \in 0..3, m2 \in 1..MaxTimeFin :
                      IF m1 + m2 < 5
                      THEN /\ apres(m1, m2).patients[p].statut = EN_TRANSPORT_CONSULTATION
                           /\ apres(m1, m2).staff[s].en_transport
                      ELSE /\ apres(m1, m2).patients[p].statut = EN_CONSULTATION
                           /\ apres(m1, m2).staff[s].disponible
                           /\ ~apres(m1, m2).staff[s].en_transport

\* C11: finaliser_transport_consultation on a patient that is unknown or not
\* EN_TRANSPORT_CONSULTATION, and finaliser_transport_unite on a patient that is unknown
\* or not EN_TRANSPORT_SORTIE, fail and change nothing; so does a second finalize on the
\* state a successful one returns.
C11_FinaliserSansEffet ==
    /\ \A p \in DOMAIN patients \cup {PATIENT_INCONNU} :
          /\ (p \notin DOMAIN patients \/ patients[p].statut # EN_TRANSPORT_CONSULTATION)
                => finaliser_transport_consultation(Etat, p) = Echec(Etat)
          /\ (p \notin DOMAIN patients \/ patients[p].statut # EN_TRANSPORT_SORTIE)
                => finaliser_transport_unite(Etat, p) = Echec(Etat)
    /\ \A p \in DOMAIN patients :
          /\ patients[p].statut = EN_TRANSPORT_CONSULTATION =>
                LET r == finaliser_transport_consultation(Etat, p) IN
                r.ok /\ finaliser_transport_consultation(r.st, p) = Echec(r.st)
          /\ patients[p].statut = EN_TRANSPORT_SORTIE =>
                LET r == finaliser_transport_unite(Etat, p) IN
                r.ok /\ finaliser_transport_unite(r.st, p) = Echec(r.st)

\* C11, its case: finaliser_transport_unite has just succeeded for a patient, in its
\* unit, and a second finalize of either kind is refused.
C11_Witness ==
    /\ last.op = "finaliser_transport_unite"
    /\ \E p \in DOMAIN patients :
          /\ patients[p].statut = SORTI
          /\ InSeq(unites[SOINS_CRITIQUES], p)
          /\ ~finaliser_transport_unite(Etat, p).ok
          /\ ~finaliser_transport_consultation(Etat, p).ok

\* C12: the localisation and the availability of the fixed triage nurse are those of
\* the construction in every reachable state; assigner_surveillance,
\* demarrer_transport_consultation and demarrer_transport_unite naming it fail and change
\* nothing; it is not among the staff the automatic supervision draws from, and it is
\* not the carrier a finalize of tick releases.
C12_TriageFixe ==
    LET fixe == "Infirmier(ere) Triage" IN
    /\ staff[fixe].localisation = NouveauStaff(fixe).localisation
    /\ staff[fixe].disponible = NouveauStaff(fixe).disponible
    /\ \A room \in SalleIds \cup {SALLE_INCONNUE} :
          assigner_surveillance(Etat, fixe, room) = Echec(Etat)
    /\ \A p \in DOMAIN patients \cup {PATIENT_INCONNU} :
          /\ demarrer_transport_consultation(Etat, p, fixe) = Echec(Etat)
          /\ demarrer_transport_unite(Etat, p, fixe) = Echec(Etat)
          /\ p \in DOMAIN patients => transporteur(Etat, p) # fixe
    /\ fixe \notin staff_dispo(Etat)
    /\ \A m \in 1..MaxTime : tick(Etat, m).st.staff[fixe] = staff[fixe]

\* C12, its case: a patient waits in a room with the consultation free, an aide may
\* carry it, and the same call naming the triage nurse is refused.
C12_Witness ==
    /\ last.op = "tick"
    /\ \E p \in DOMAIN patients :
          /\ patients[p].statut = SALLE_ATTENTE
          /\ demarrer_transport_consultation(Etat, p, "Aide Soignant(e) A").ok
          /\ ~demarrer_transport_consultation(Etat, p, "Infirmier(ere) Triage").ok
    /\ \E p \in DOMAIN patients :
          /\ patients[p].statut = ATTENTE_TRANSPORT_SORTIE
          /\ demarrer_transport_unite(Etat, p, "Aide Soignant(e) A").ok
          /\ ~demarrer_transport_unite(Etat, p, "Infirmier(ere) Triage").ok

\* C13: a patient that is SORTI stays SORTI under every later call of the controller,
\* and no call takes a patient out of the map of patients.
C13_SortiTerminal ==
    [][\A p \in DOMAIN patients :
          /\ p \in DOMAIN patients'
          /\ patients[p].statut = SORTI => patients'[p].statut = SORTI]_vars

\* C14: assigner_salle_attente fails and changes nothing when the patient is unknown or
\* is not ATTENTE_TRIAGE; when it succeeds, the patient id is appended to the list of
\* the chosen room and the patient is SALLE_ATTENTE.
C14_AssignerSalleAttente ==
    \A p \in DOMAIN patients \cup {PATIENT_INCONNU},
       room \in SalleIds \cup {None, SALLE_INCONNUE} :
        LET r == assigner_salle_attente(Etat, p, room) IN
        /\ (p \notin DOMAIN patients \/ patients[p].statut # ATTENTE_TRIAGE) => r = Echec(Etat)
        /\ r.ok =>
              /\ r.st.patients[p].statut = SALLE_ATTENTE
              /\ \E choisie \in SalleIds :
                    /\ room # None => choisie = room
                    /\ r.st.patients[p].salle_attente_id = choisie
                    /\ r.st.salles[choisie].patients = Append(salles_attente[choisie].patients, p)

\* C15: demarrer_transport_consultation succeeds only for a known patient that is
\* SALLE_ATTENTE, with the consultation free and a known staff member that may leave;
\* otherwise it fails and leaves the patient, the rooms, the consultation and the staff
\* member as they were.
C15_DemarrerConsultationSeulementSi ==
    \A p \in DOMAIN patients \cup {PATIENT_INCONNU}, s \in StaffIds \cup {STAFF_INCONNU} :
        LET r == demarrer_transport_consultation(Etat, p, s)
            permis == /\ p \in DOMAIN patients
                      /\ s \in StaffIds
                      /\ patients[p].statut = SALLE_ATTENTE
                      /\ est_libre(Etat)
                      /\ peut_partir(Etat, s)
        IN  /\ r.ok => permis
            /\ ~permis => r = Echec(Etat)

\* C16: when demarrer_transport_unite succeeds, the staff member is expected at the
\* clock plus 5 minutes when the patient is ROUGE and goes to Soins Critiques, and at the
\* clock plus 45 minutes for every other gravity and unit, a ROUGE sent to another unit
\* included.
C16_DureeTransportUnite ==
    \A p \in DOMAIN patients, s \in StaffIds :
        LET r == demarrer_transport_unite(Etat, p, s) IN
        r.ok =>
            r.st.staff[s].fin_transport_prevue =
                current_time + (IF /\ patients[p].gravite = "ROUGE"
                                   /\ patients[p].unite_cible = SOINS_CRITIQUES
                                THEN 5 ELSE 45)

\* demarrer_transport_unite is permitted: the patient has a target unit with a free
\* place, the staff member is an aide or a mobile nurse, and it may leave
TransportUnitePermis(p, s) ==
    /\ p \in DOMAIN patients
    /\ s \in StaffIds
    /\ patients[p].unite_cible \in DOMAIN unites
    /\ Len(unites[patients[p].unite_cible]) < capacite_unite(patients[p].unite_cible)
    /\ TypeStaff(s) \in {AIDE_SOIGNANT, INFIRMIERE_MOBILE}
    /\ peut_partir(Etat, s)

\* C17: demarrer_transport_unite fails and changes nothing unless it is permitted; when
\* it succeeds the patient is in the list of no waiting room and names none, it is
\* EN_TRANSPORT_SORTIE, the staff member is in transit and not available, and the room
\* the staff member supervised, if any, has no supervisor, nor the staff member a room.
C17_DemarrerTransportUnite ==
    \A p \in DOMAIN patients \cup {PATIENT_INCONNU}, s \in StaffIds \cup {STAFF_INCONNU} :
        LET r == demarrer_transport_unite(Etat, p, s) IN
        /\ ~TransportUnitePermis(p, s) => r = Echec(Etat)
        /\ r.ok =>
              /\ r.st.patients[p].salle_attente_id = None
              /\ \A room \in SalleIds : ~InSeq(r.st.salles[room].patients, p)
              /\ r.st.patients[p].statut = EN_TRANSPORT_SORTIE
              /\ r.st.staff[s].en_transport
              /\ ~r.st.staff[s].disponible
              /\ r.st.staff[s].salle_surveillee = None
              /\ \A room \in SalleIds :
                    staff[s].salle_surveillee = room => r.st.salles[room].surveillee_par = None

\* C18: terminer_consultation fails and changes nothing unless the patient is
\* EN_CONSULTATION, and also for a ROUGE patient sent to Maison; when it succeeds the
\* patient is SORTI if the destination is Maison and ATTENTE_TRANSPORT_SORTIE with the
\* destination as its target unit otherwise, the consultation names no patient, and
\* demarrer_transport_consultation then succeeds for a patient that waits in a room
\* with a staff member that may leave.
C18_TerminerConsultation ==
    \A p \in DOMAIN patients \cup {PATIENT_INCONNU}, u \in UniteCible :
        LET r == terminer_consultation(Etat, p, u)
            permis == /\ p \in DOMAIN patients
                      /\ patients[p].statut = EN_CONSULTATION
                      /\ ~(patients[p].gravite = "ROUGE" /\ u = MAISON)
        IN  IF ~permis THEN r = Echec(Etat)
            ELSE /\ r.ok
                 /\ r.st.patients[p].statut =
                        IF u = MAISON THEN SORTI ELSE ATTENTE_TRANSPORT_SORTIE
                 /\ r.st.patients[p].unite_cible = u
                 /\ r.st.consultation.patient_id = None
                 /\ \A q \in DOMAIN patients, s \in StaffIds :
                        patients[q].statut = SALLE_ATTENTE /\ peut_partir(Etat, s) =>
                            demarrer_transport_consultation(r.st, q, s).ok

\* C18, its case: terminer_consultation has just sent a patient home; the patient is
\* SORTI, the consultation is free, and a patient that waited in a room can now start.
C18_Witness ==
    /\ last.op = "terminer_consultation"
    /\ consultation.patient_id = None
    /\ \E p, q \in DOMAIN patients :
          /\ patients[p].statut = SORTI
          /\ patients[p].unite_cible = MAISON
          /\ patients[q].statut = SALLE_ATTENTE
          /\ demarrer_transport_consultation(Etat, q, "Aide Soignant(e) A").ok

\* C19: retourner_patient_salle_attente fails and changes nothing unless the patient is
\* ATTENTE_TRANSPORT_SORTIE; without a room id it fails when every room is full and
\* otherwise puts the patient in a room that is not full and has the most free places;
\* with a room id it fails when that room is unknown or full, and otherwise puts the
\* patient in that room.
C19_RetourSalleAttente ==
    \A p \in DOMAIN patients \cup {PATIENT_INCONNU},
       s \in {STAFF_INCONNU, "Aide Soignant(e) A"},
       room \in SalleIds \cup {None, SALLE_INCONNUE} :
        LET r == retourner_patient_salle_attente(Etat, p, s, room)
            libres == {c \in SalleIds : Len(salles_attente[c].patients) < capacite(c)}
            cibles == IF room = None
                      THEN {c \in libres : \A d \in libres :
                                capacite(d) - Len(salles_attente[d].patients)
                                    <= capacite(c) - Len(salles_attente[c].patients)}
                      ELSE libres \cap {room}
        IN  IF p \notin DOMAIN patients THEN r = Echec(Etat)
            ELSE IF patients[p].statut # ATTENTE_TRANSPORT_SORTIE THEN r = Echec(Etat)
            ELSE IF cibles = {} THEN r = Echec(Etat)
            ELSE /\ r.ok
                 /\ r.st.patients[p].statut = SALLE_ATTENTE
                 /\ r.st.patients[p].salle_attente_id \in cibles
                 /\ InSeq(r.st.salles[r.st.patients[p].salle_attente_id].patients, p)

\* the step is a call of assigner_surveillance that returned success
EstUneSurveillance ==
    last'.op = "assigner_surveillance" /\ appels_restants' = appels_restants - 1

\* the staff member took a post less than DUREE_MIN_OCCUPATION minutes ago
AuPosteDepuisPeu(s) ==
    staff[s].occupe_depuis # NoTime /\ current_time < staff[s].occupe_depuis + 5

\* C20: a successful assigner_surveillance at clock t stamps the staff member it names
\* with t; the stamp stays while the clock is below t + 5, and as long as it is so every
\* assigner_surveillance, demarrer_transport_consultation and demarrer_transport_unite
\* naming the staff member fails and changes nothing; from t + 5 on, the staff member
\* may leave again if it is available and not in transit.
C20_DureeMinimaleAuPoste ==
    /\ [][EstUneSurveillance =>
            \E s \in StaffIds :
                /\ staff'[s].occupe_depuis = current_time
                /\ staff'[s].salle_surveillee \in SalleIds
                /\ \A autre \in StaffIds \ {s} : staff'[autre] = staff[autre]]_vars
    /\ [][\A s \in StaffIds :
            staff[s].occupe_depuis # NoTime /\ current_time' < staff[s].occupe_depuis + 5 =>
                staff'[s].occupe_depuis = staff[s].occupe_depuis]_vars
    /\ [](\A s \in StaffIds :
            AuPosteDepuisPeu(s) =>
                /\ \A room \in SalleIds \cup {SALLE_INCONNUE} :
                      assigner_surveillance(Etat, s, room) = Echec(Etat)
                /\ \A p \in DOMAIN patients \cup {PATIENT_INCONNU} :
                      /\ demarrer_transport_consultation(Etat, p, s) = Echec(Etat)
                      /\ demarrer_transport_unite(Etat, p, s) = Echec(Etat))
    /\ [](\A s \in StaffIds :
            /\ staff[s].occupe_depuis # NoTime
            /\ current_time >= staff[s].occupe_depuis + 5
            /\ staff[s].disponible
            /\ ~staff[s].en_transport
            => /\ peut_partir(Etat, s)
               /\ \A room \in SalleIds : assigner_surveillance(Etat, s, room).ok)

\* C20, its case: a tick has brought the clock to 5 minutes after a mobile nurse took
\* its post, and it may leave; an aide that took its post 2 minutes ago may not, though
\* it is available and not in transit, and a patient waits with the consultation free.
C20_Witness ==
    /\ last.op = "tick"
    /\ staff["Infirmier(ere) B"].occupe_depuis # NoTime
    /\ current_time = staff["Infirmier(ere) B"].occupe_depuis + 5
    /\ peut_partir(Etat, "Infirmier(ere) B")
    /\ current_time = staff["Aide Soignant(e) A"].occupe_depuis + 2
    /\ staff["Aide Soignant(e) A"].disponible
    /\ ~staff["Aide Soignant(e) A"].en_transport
    /\ \E p \in DOMAIN patients :
          /\ patients[p].statut = SALLE_ATTENTE
          /\ demarrer_transport_consultation(Etat, p, "Infirmier(ere) B").ok
          /\ ~demarrer_transport_consultation(Etat, p, "Aide Soignant(e) A").ok

\* the argument sets of the calls applied to a reachable state
TousPatients == DOMAIN patients \cup {PATIENT_INCONNU}
TousStaff == StaffIds \cup {STAFF_INCONNU}
ToutesSalles == SalleIds \cup {None, SALLE_INCONNUE}
\* the minutes given to tick: int, with no test on its sign
MinutesDeTick == {-5, -1, 0, 1, 5}

\* the states returned by every call of the controller, successful or not, other than
\* tick and the two finalize
EtatsApresAppel ==
    {ajouter_patient(Etat, p, g).st : p \in PatientIds, g \in Gravite}
    \cup {assigner_salle_attente(Etat, p, room).st : p \in TousPatients, room \in ToutesSalles}
    \cup {assigner_surveillance(Etat, s, room).st : s \in TousStaff, room \in ToutesSalles}
    \cup {verifier_et_gerer_surveillance(Etat).st}
    \cup {demarrer_transport_consultation(Etat, p, s).st : p \in TousPatients, s \in TousStaff}
    \cup {terminer_consultation(Etat, p, u).st : p \in TousPatients, u \in UniteCible}
    \cup {retourner_patient_salle_attente(Etat, p, STAFF_INCONNU, room).st :
            p \in TousPatients, room \in ToutesSalles}
    \cup {demarrer_transport_unite(Etat, p, s).st : p \in TousPatients, s \in TousStaff}

\* the states returned by the two finalize
EtatsApresFinaliser ==
    {finaliser_transport_consultation(Etat, p).st : p \in TousPatients}
    \cup {finaliser_transport_unite(Etat, p).st : p \in TousPatients}

\* C21: the clock never decreases and only tick changes it: every other call, whether
\* it succeeds or fails, returns the clock it found, and tick returns a clock that is not
\* before it; and no call other than tick and the finalize ends the transit of a staff
\* member or brings a patient in transit to its destination, whatever the clock.
C21_HorlogeMonotone ==
    /\ \A st \in EtatsApresAppel \cup EtatsApresFinaliser : st.now = current_time
    /\ \A m \in MinutesDeTick : tick(Etat, m).st.now >= current_time
    /\ \A st \in EtatsApresAppel :
          /\ \A s \in StaffIds :
                staff[s].en_transport =>
                    /\ st.staff[s].en_transport
                    /\ st.staff[s].fin_transport_prevue = staff[s].fin_transport_prevue
                    /\ st.staff[s].patient_transporte_id = staff[s].patient_transporte_id
                    /\ st.staff[s].destination_transport = staff[s].destination_transport
          /\ \A p \in DOMAIN patients :
                /\ patients[p].statut = EN_TRANSPORT_CONSULTATION
                      => st.patients[p].statut # EN_CONSULTATION
                /\ patients[p].statut = EN_TRANSPORT_SORTIE
                      => st.patients[p].statut # SORTI

\* the rooms that hold a patient and have no supervisor
SallesACouvrir == {room \in SalleIds : /\ Len(salles_attente[room].patients) > 0
                                        /\ salles_attente[room].surveillee_par = None}

\* C22: verifier_et_gerer_surveillance always returns; with no idle mobile nurse or aide
\* it returns no event and changes nothing; with one, every room that holds a patient
\* and has no supervisor gets one of them as its supervisor, as long as some are left,
\* and the call returns one event per room it covered.
C22_CouvertureAutomatique ==
    LET r == verifier_et_gerer_surveillance(Etat)
        couvertes == {room \in SallesACouvrir : r.st.salles[room].surveillee_par # None}
    IN  /\ r.res = "ok"
        /\ staff_dispo(Etat) = {} => r.st = Etat /\ r.actions = <<>>
        /\ Len(r.actions) = Cardinality(couvertes)
        /\ \A room \in couvertes : r.st.salles[room].surveillee_par \in staff_dispo(Etat)
        /\ \/ couvertes = SallesACouvrir
           \/ Cardinality(couvertes) = Cardinality(staff_dispo(Etat))

\* C23: assigner_surveillance succeeds exactly for a mobile nurse or an aide that may
\* leave and a room that exists, and otherwise changes nothing; when it succeeds, the
\* room the staff member supervised before has no supervisor, the new room has the staff
\* member as its supervisor, and occupe_depuis of the staff member and
\* derniere_surveillance of the new room are the current clock.
C23_AssignerSurveillance ==
    \A s \in TousStaff, room \in ToutesSalles :
        LET r == assigner_surveillance(Etat, s, room)
            permis == /\ s \in StaffIds
                      /\ TypeStaff(s) \in {INFIRMIERE_MOBILE, AIDE_SOIGNANT}
                      /\ peut_partir(Etat, s)
                      /\ room \in SalleIds
        IN  IF ~permis THEN r = Echec(Etat)
            ELSE /\ r.ok
                 /\ r.st.salles[room].surveillee_par = s
                 /\ r.st.salles[room].derniere_surveillance = current_time
                 /\ r.st.staff[s].occupe_depuis = current_time
                 /\ \A avant \in SalleIds \ {room} :
                       staff[s].salle_surveillee = avant =>
                           r.st.salles[avant].surveillee_par = None

\* C23, its case: the mobile nurse has just moved its supervision, 5 minutes or more
\* after it took its first post: the room it left has no supervisor, the room it took
\* has it as its supervisor, and both stamps are the current clock.
C23_Witness ==
    /\ last.op = "assigner_surveillance"
    /\ staff["Aide Soignant(e) A"].occupe_depuis = NoTime
    /\ staff["Infirmier(ere) B"].salle_surveillee = "salle_attente_1"
    /\ staff["Infirmier(ere) B"].occupe_depuis = current_time
    /\ salles_attente["salle_attente_1"].surveillee_par = "Infirmier(ere) B"
    /\ salles_attente["salle_attente_1"].derniere_surveillance = current_time
    /\ salles_attente["salle_attente_2"].surveillee_par = None
    /\ salles_attente["salle_attente_2"].derniere_surveillance > 0
    /\ salles_attente["salle_attente_2"].derniere_surveillance < current_time

\* the supervision alerts of get_alertes that name the room
AlertesDe(room) ==
    {i \in 1..Len(get_alertes(Etat).surveillance) : get_alertes(Etat).surveillance[i][1] = room}

\* C24, as stated: get_alertes has a supervision alert for a room exactly when the room
\* holds a patient and its last supervision is more than 15 minutes old, whether or not
\* a staff member is recorded as its supervisor.
C24_AlerteSansEgardAuSuperviseur ==
    \A room \in SalleIds :
        AlertesDe(room) # {} <=>
            /\ Len(salles_attente[room].patients) > 0
            /\ current_time - salles_attente[room].derniere_surveillance > 15

\* C24, amended: get_alertes has a supervision alert for a room exactly when the room
\* holds a patient, its last supervision is more than 15 minutes old, and no staff member
\* that is not in transit has the room as its supervised room; at 15 minutes there is
\* none.
C24_AlerteSiSansSuperviseur ==
    \A room \in SalleIds :
        AlertesDe(room) # {} <=>
            /\ Len(salles_attente[room].patients) > 0
            /\ current_time - salles_attente[room].derniere_surveillance > 15
            /\ ~\E s \in StaffIds : staff[s].salle_surveillee = room /\ ~staff[s].en_transport

\* C24, its case: two ticks have brought a room that holds a patient, with no staff
\* member at its post, to 20 minutes without supervision, and get_alertes has one alert,
\* which names the room and the 20 minutes.
C24_Witness ==
    /\ last.op = "tick"
    /\ Len(salles_attente["salle_attente_2"].patients) > 0
    /\ \A s \in StaffIds : staff[s].salle_surveillee # "salle_attente_2"
    /\ get_alertes(Etat).surveillance = << <<"salle_attente_2", 20>> >>

\* C25: a room that holds a patient, has no supervisor, and whose last supervision is
\* more than 15 minutes old has exactly one supervision alert in get_alertes, and a room
\* that holds no patient has none.
C25_UneAlerteParSalle ==
    \A room \in SalleIds :
        /\ (/\ Len(salles_attente[room].patients) > 0
            /\ salles_attente[room].surveillee_par = None
            /\ current_time - salles_attente[room].derniere_surveillance > 15)
              => Cardinality(AlertesDe(room)) = 1
        /\ Len(salles_attente[room].patients) = 0 => AlertesDe(room) = {}

\* the staff members whose transport is due at the clock
TransportsEchus(horloge) ==
    {s \in StaffIds : /\ staff[s].en_transport
                      /\ staff[s].fin_transport_prevue # NoTime
                      /\ staff[s].fin_transport_prevue <= horloge}

\* C26: the events tick returns have one entry for each transport that was due, whether
\* its finalize succeeded or failed, and each of them names the patient carried.
C26_TickRapporteLesEchecs ==
    [][EstUnTick =>
          /\ Len(last'.events) = Cardinality(TransportsEchus(current_time'))
          /\ \A s \in TransportsEchus(current_time') :
                \E i \in 1..Len(last'.events) :
                    last'.events[i][2] = staff[s].patient_transporte_id]_vars

\* C27: ajouter_patient fails for an id that is already in the map of patients, and then
\* changes nothing; otherwise it succeeds, the patient it stores has arrived at the
\* current clock and is ATTENTE_TRIAGE, the other patients are as they were, and no room,
\* unit, staff member nor the consultation changes.
C27_AjouterPatient ==
    \A p \in PatientIds, g \in Gravite :
        LET r == ajouter_patient(Etat, p, g) IN
        IF p \in DOMAIN patients THEN r = Echec(Etat)
        ELSE /\ r.ok
             /\ DOMAIN r.st.patients = DOMAIN patients \cup {p}
             /\ r.st.patients[p].arrived_at = current_time
             /\ r.st.patients[p].statut = ATTENTE_TRIAGE
             /\ r.st.patients[p].gravite = g
             /\ \A q \in DOMAIN patients : r.st.patients[q] = patients[q]
             /\ r.st.salles = salles_attente
             /\ r.st.unites = unites
             /\ r.st.staff = staff
             /\ r.st.consultation = consultation
             /\ r.st.now = current_time

\* C27, its case: the second patient has just been admitted, after a tick and while
\* the first is in a waiting room; it arrived at the current clock, and admitting
\* either id again is refused.
C27_Witness ==
    /\ last.op = "ajouter_patient"
    /\ current_time > 0
    /\ DOMAIN patients = {"P1", "P2"}
    /\ patients["P1"].statut = SALLE_ATTENTE
    /\ patients["P1"].arrived_at < current_time
    /\ patients["P2"].arrived_at = current_time
    /\ patients["P2"].statut = ATTENTE_TRIAGE
    /\ \A p \in {"P1", "P2"}, g \in Gravite : ajouter_patient(Etat, p, g) = Echec(Etat)

\* C28: every call of the controller given a patient id, a staff id or a room id that
\* names nothing, the staff id given to retourner_patient_salle_attente included,
\* returns a failure and changes nothing.
C28_IdsInconnus ==
    /\ \A room \in ToutesSalles :
          assigner_salle_attente(Etat, PATIENT_INCONNU, room) = Echec(Etat)
    /\ \A p \in TousPatients :
          assigner_salle_attente(Etat, p, SALLE_INCONNUE) = Echec(Etat)
    /\ \A room \in ToutesSalles :
          assigner_surveillance(Etat, STAFF_INCONNU, room) = Echec(Etat)
    /\ \A s \in TousStaff :
          assigner_surveillance(Etat, s, SALLE_INCONNUE) = Echec(Etat)
    /\ \A s \in TousStaff :
          /\ demarrer_transport_consultation(Etat, PATIENT_INCONNU, s) = Echec(Etat)
          /\ demarrer_transport_unite(Etat, PATIENT_INCONNU, s) = Echec(Etat)
    /\ \A p \in TousPatients :
          /\ demarrer_transport_consultation(Etat, p, STAFF_INCONNU) = Echec(Etat)
          /\ demarrer_transport_unite(Etat, p, STAFF_INCONNU) = Echec(Etat)
    /\ finaliser_transport_consultation(Etat, PATIENT_INCONNU) = Echec(Etat)
    /\ finaliser_transport_unite(Etat, PATIENT_INCONNU) = Echec(Etat)
    /\ \A u \in UniteCible : terminer_consultation(Etat, PATIENT_INCONNU, u) = Echec(Etat)
    /\ \A s \in TousStaff, room \in ToutesSalles :
          retourner_patient_salle_attente(Etat, PATIENT_INCONNU, s, room) = Echec(Etat)
    /\ \A p \in TousPatients, s \in TousStaff :
          retourner_patient_salle_attente(Etat, p, s, SALLE_INCONNUE) = Echec(Etat)
    /\ \A p \in TousPatients, room \in ToutesSalles :
          retourner_patient_salle_attente(Etat, p, STAFF_INCONNU, room) = Echec(Etat)

\* the occurrences of the patient id in the list of the room
Occurrences(p, room) ==
    {i \in 1..Len(salles_attente[room].patients) : salles_attente[room].patients[i] = p}

\* C29: a patient id occurs at most once over the lists of all the waiting rooms, and
\* it occurs in the list of a room exactly when the patient is SALLE_ATTENTE and names
\* that room.
C29_AppartenanceSalles ==
    \A p \in DOMAIN patients :
        /\ \A room \in SalleIds :
              /\ Cardinality(Occurrences(p, room)) <= 1
              /\ Occurrences(p, room) # {} <=>
                    patients[p].statut = SALLE_ATTENTE /\ patients[p].salle_attente_id = room
        /\ \A r1, r2 \in SalleIds :
              Occurrences(p, r1) # {} /\ Occurrences(p, r2) # {} => r1 = r2

\* C30: when the consultation names a patient, that patient is
\* EN_TRANSPORT_CONSULTATION or EN_CONSULTATION, so that a finalize followed by
\* terminer_consultation frees the consultation.
C30_ConsultationReservee ==
    consultation.patient_id # None =>
        /\ consultation.patient_id \in DOMAIN patients
        /\ patients[consultation.patient_id].statut
              \in {EN_TRANSPORT_CONSULTATION, EN_CONSULTATION}

----------------------------------------------------------------------------
(* Transporters *)

\* the staff members whose patient_transporte_id is the patient
Porteurs(p) == {s \in StaffIds : staff[s].patient_transporte_id = p}

\* C31: at most one staff member has a given patient as its patient_transporte_id,
\* and the patient of every staff member en_transport is EN_TRANSPORT_CONSULTATION
\* when destination_transport is the consultation and EN_TRANSPORT_SORTIE otherwise.
C31_TransporteurEtPatient ==
    /\ \A p \in DOMAIN patients : Cardinality(Porteurs(p)) <= 1
    /\ \A s \in StaffIds :
          staff[s].en_transport =>
              /\ staff[s].patient_transporte_id \in DOMAIN patients
              /\ patients[staff[s].patient_transporte_id].statut =
                    IF staff[s].destination_transport = "consultation"
                    THEN EN_TRANSPORT_CONSULTATION ELSE EN_TRANSPORT_SORTIE

\* the occurrences of the patient id in the list of the unit
Admissions(p, u) == {i \in 1..Len(unites[u]) : unites[u][i] = p}

\* C32: a patient id occurs at most once over the lists of all the care units, and a
\* patient listed in a unit is SORTI and has that unit as its unite_cible.
C32_AdmissionUnique ==
    \A p \in DOMAIN patients :
        /\ \A u \in DOMAIN unites :
              /\ Cardinality(Admissions(p, u)) <= 1
              /\ Admissions(p, u) # {} =>
                    patients[p].statut = SORTI /\ patients[p].unite_cible = u
        /\ \A u1, u2 \in DOMAIN unites :
              Admissions(p, u1) # {} /\ Admissions(p, u2) # {} => u1 = u2

\* C33: a patient whose demarrer_transport_consultation succeeded at clock t is not
\* EN_CONSULTATION while the clock is below t + 5: a step that brings a patient from
\* EN_TRANSPORT_CONSULTATION to EN_CONSULTATION ends at or after the
\* fin_transport_prevue of the staff member that carries the patient there.
C33_TransportDureCinqMinutes ==
    [][\A p \in DOMAIN patients :
          /\ patients[p].statut = EN_TRANSPORT_CONSULTATION
          /\ patients'[p].statut = EN_CONSULTATION
          => \E s \in StaffIds :
                /\ staff[s].patient_transporte_id = p
                /\ staff[s].destination_transport = "consultation"
                /\ current_time' >= staff[s].fin_transport_prevue]_vars

----------------------------------------------------------------------------
(* Room selection: the waiting rooms at every occupancy *)

\* ajouter_patient and assigner_salle_attente with the room id, for each id of ids in turn
RECURSIVE Loger(_, _, _)
Loger(st, ids, room_id) ==
    IF ids = <<>> THEN st
    ELSE LET admis == ajouter_patient(st, Head(ids), GraviteDe(Head(ids)))
             loge == assigner_salle_attente(admis.st, Head(ids), room_id)
         IN  IF admis.ok /\ loge.ok THEN Loger(loge.st, Tail(ids), room_id) ELSE st

\* n1, n2 and n3 patients of Loges assigned by name to the three rooms
EtatSalles(n1, n2, n3) ==
    LET s1 == Loger(EtatInitial, SubSeq(Loges, 1, n1), SallesOrdre[1])
        s2 == Loger(s1, SubSeq(Loges, n1 + 1, n1 + n2), SallesOrdre[2])
    IN  Loger(s2, SubSeq(Loges, n1 + n2 + 1, n1 + n2 + n3), SallesOrdre[3])

InitSalles ==
    /\ \E n1 \in 0..capacite(SallesOrdre[1]), n2 \in 0..capacite(SallesOrdre[2]),
          n3 \in 0..capacite(SallesOrdre[3]) :
          LET st == EtatSalles(n1, n2, n3) IN
          /\ patients = st.patients
          /\ salles_attente = st.salles
          /\ consultation = st.consultation
          /\ unites = st.unites
          /\ staff = st.staff
          /\ current_time = st.now
    /\ last = Retour("init", <<>>)
    /\ appels_restants = MaxAppelsSalles

NextSalles ==
    \/ \E p \in AdmitArgs : AjouterPatient(p, GraviteDe(p))
    \/ \E p \in PatientIds : AssignerSalleAttente(p, None)
    \/ \E p \in NomIds, g \in Gravite : AjouterPatientAvecNom(p, g)

SpecSalles == InitSalles /\ [][NextSalles]_vars

\* the rooms that are not full
SallesLibres == {i \in 1..Len(SallesOrdre) : ~est_pleine(Etat, SallesOrdre[i])}

\* C34: assigner_salle_attente without a room id, on a patient ATTENTE_TRIAGE, fails
\* and changes nothing when every room is full; otherwise it succeeds, and the room
\* that takes the patient is not full, no room that is not full has more free places,
\* and no room declared before it that is not full has as many.
C34_ChoixDeLaSalle ==
    \A p \in DOMAIN patients :
        patients[p].statut = ATTENTE_TRIAGE =>
            LET r == assigner_salle_attente(Etat, p, None) IN
            IF SallesLibres = {} THEN r = Echec(Etat)
            ELSE /\ r.ok
                 /\ \E i \in SallesLibres :
                       /\ r.st.patients[p].salle_attente_id = SallesOrdre[i]
                       /\ r.st.salles[SallesOrdre[i]].patients =
                             Append(salles_attente[SallesOrdre[i]].patients, p)
                       /\ \A j \in 1..Len(SallesOrdre) :
                             j # i => r.st.salles[SallesOrdre[j]] = salles_attente[SallesOrdre[j]]
                       /\ \A j \in SallesLibres :
                             /\ places_disponibles(Etat, SallesOrdre[j])
                                   <= places_disponibles(Etat, SallesOrdre[i])
                             /\ j < i => places_disponibles(Etat, SallesOrdre[j])
                                             < places_disponibles(Etat, SallesOrdre[i])

\* P1 went without a room id into salle_attente_1 while salle_attente_3 had as many
\* free places, and salle_attente_2 no more
C34_Witness ==
    /\ last.op = "assigner_salle_attente"
    /\ "P1" \in DOMAIN patients
    /\ patients["P1"].statut = SALLE_ATTENTE
    /\ patients["P1"].salle_attente_id = "salle_attente_1"
    /\ places_disponibles(Etat, "salle_attente_1") + 1
          = places_disponibles(Etat, "salle_attente_3")
    /\ places_disponibles(Etat, "salle_attente_2")
          <= places_disponibles(Etat, "salle_attente_1")

----------------------------------------------------------------------------
(* Order within a tick *)

\* the kind of finalize tick calls for the i-th member of the roster
GenreDe(i) ==
    IF staff[StaffOrdre[i]].destination_transport = "consultation"
    THEN "consultation" ELSE "unite"

\* the i-th member of the roster is in transit, expected at or before the clock
Echu(i, horloge) ==
    /\ staff[StaffOrdre[i]].en_transport
    /\ staff[StaffOrdre[i]].fin_transport_prevue # NoTime
    /\ staff[StaffOrdre[i]].fin_transport_prevue <= horloge

\* the patient the i-th member carries has the status its finalize asks for
Finalisable(i) ==
    LET pid == staff[StaffOrdre[i]].patient_transporte_id IN
    /\ pid \in DOMAIN patients
    /\ patients[pid].statut = IF GenreDe(i) = "consultation"
                              THEN EN_TRANSPORT_CONSULTATION ELSE EN_TRANSPORT_SORTIE

\* the members of the roster whose finalize succeeds at the clock, in roster order: a
\* patient that an earlier member brought in is no longer in transit for a later one
Arrivees(horloge) ==
    SelectSeq([i \in 1..Len(StaffOrdre) |-> i],
              LAMBDA i : /\ Echu(i, horloge)
                         /\ Finalisable(i)
                         /\ \A j \in 1..(i - 1) :
                               ~(/\ Echu(j, horloge)
                                 /\ Finalisable(j)
                                 /\ staff[StaffOrdre[j]].patient_transporte_id
                                       = staff[StaffOrdre[i]].patient_transporte_id))

\* C35: the events a tick returns are those of the finalizations that succeeded, one for
\* each, in the order of the staff roster whatever the gravities; no patient has two
\* events; each of these patients is EN_CONSULTATION or SORTI after the tick, and the
\* patients that entered a unit are appended to its list in roster order.
C35_OrdreDuRoster ==
    [][EstUnTick =>
          LET arr == Arrivees(current_time')
              pid(k) == staff[StaffOrdre[arr[k]]].patient_transporte_id
          IN  /\ last'.events = [k \in 1..Len(arr) |-> <<GenreDe(arr[k]), pid(k)>>]
              /\ \A k1, k2 \in 1..Len(last'.events) :
                    last'.events[k1][2] = last'.events[k2][2] => k1 = k2
              /\ \A k \in 1..Len(arr) :
                    patients'[pid(k)].statut =
                        IF GenreDe(arr[k]) = "consultation" THEN EN_CONSULTATION ELSE SORTI
              /\ \A u \in DOMAIN unites :
                    unites'[u] = unites[u] \o
                        SelectSeq([k \in 1..Len(arr) |-> pid(k)],
                                  LAMBDA p : /\ patients[p].unite_cible = u
                                             /\ patients[p].statut = EN_TRANSPORT_SORTIE)]_vars

\* a tick brought in W1, VERT, carried by Infirmier(ere) B, before P1, ROUGE, carried
\* by Aide Soignant(e) A
C35_Witness ==
    /\ last.op = "tick"
    /\ last.events = << <<"consultation", "W1">>, <<"unite", "P1">> >>
    /\ patients["P1"].gravite = "ROUGE"
    /\ patients["W1"].gravite = "VERT"

\* C36: the supervisor of a room is staff member s exactly when the salle_surveillee of
\* s is that room; no room is the salle_surveillee of two staff members.
C36_PointeursDeSurveillance ==
    /\ \A room \in SalleIds, s \in StaffIds :
          salles_attente[room].surveillee_par = s <=> staff[s].salle_surveillee = room
    /\ \A room \in SalleIds :
          Cardinality({s \in StaffIds : staff[s].salle_surveillee = room}) <= 1

----------------------------------------------------------------------------
(* Failures *)

\* the call returned success, or the state is the state before the call
SansEffet(r) == r.ok \/ r.st = Etat

\* C37: a call of the controller that returns a failure leaves the patients, the rooms,
\* the consultation, the units, the staff and the clock as they were, whatever the
\* arguments; ajouter_patient_avec_nom included, when its room assignment fails.
C37_EchecSansEffet ==
    /\ \A p \in TousPatients \cup PatientIds, g \in Gravite :
          SansEffet(ajouter_patient(Etat, p, g))
    /\ \A p \in NomIds, g \in Gravite : SansEffet(ajouter_patient_avec_nom(Etat, p, g))
    /\ \A p \in TousPatients, room \in ToutesSalles :
          /\ SansEffet(assigner_salle_attente(Etat, p, room))
          /\ \A s \in TousStaff : SansEffet(retourner_patient_salle_attente(Etat, p, s, room))
    /\ \A s \in TousStaff, room \in ToutesSalles :
          SansEffet(assigner_surveillance(Etat, s, room))
    /\ \A p \in TousPatients, s \in TousStaff :
          /\ SansEffet(demarrer_transport_consultation(Etat, p, s))
          /\ SansEffet(demarrer_transport_unite(Etat, p, s))
    /\ \A p \in TousPatients :
          /\ SansEffet(finaliser_transport_consultation(Etat, p))
          /\ SansEffet(finaliser_transport_unite(Etat, p))
          /\ \A u \in UniteCible \cup {None} : SansEffet(terminer_consultation(Etat, p, u))

----------------------------------------------------------------------------
(* Staff in transit *)

\* C38: a staff member is not disponible exactly when it is en_transport, and it is
\* en_transport exactly when its patient_transporte_id, destination_transport and
\* fin_transport_prevue are all set; release_staff leaves the staff member disponible,
\* not en_transport, with none of the three set and no occupe_depuis, and writes nothing
\* else but its localisation and doit_revenir_avant.
C38_ChampsDeTransport ==
    /\ \A s \in StaffIds :
          /\ ~staff[s].disponible <=> staff[s].en_transport
          /\ staff[s].en_transport <=>
                /\ staff[s].patient_transporte_id # None
                /\ staff[s].destination_transport # None
                /\ staff[s].fin_transport_prevue # NoTime
    /\ release_staff(Etat, STAFF_INCONNU) = Etat
    /\ \A s \in StaffIds :
          LET r == release_staff(Etat, s) IN
          /\ r.staff[s].disponible
          /\ ~r.staff[s].en_transport
          /\ r.staff[s].patient_transporte_id = None
          /\ r.staff[s].destination_transport = None
          /\ r.staff[s].fin_transport_prevue = NoTime
          /\ r.staff[s].occupe_depuis = NoTime
          /\ r.staff[s].salle_surveillee = staff[s].salle_surveillee
          /\ \A t \in StaffIds \ {s} : r.staff[t] = staff[t]
          /\ r.patients = patients /\ r.salles = salles_attente /\ r.unites = unites
          /\ r.consultation = consultation /\ r.now = current_time

\* a staff member that had a post carried a patient to the consultation and was released
\* on arrival
C38_Witness ==
    /\ last.op \in {"finaliser_transport_consultation", "tick"}
    /\ \E s \in StaffIds :
          /\ staff[s].salle_surveillee # None
          /\ staff[s].occupe_depuis = NoTime
          /\ staff[s].disponible
          /\ \E p \in DOMAIN patients :
                /\ patients[p].statut = EN_CONSULTATION
                /\ consultation.patient_id = p

====
